---- MODULE Spec2Model ----
(***************************************************************************)
(* pytest-rerunfailures (rerunfailures/plugin.py): the per-item protocol   *)
(* hook pytest_runtest_protocol, the compatibility check check_options,    *)
(* the two run strategies repeat_run and repeat_test_only, and the status  *)
(* hook pytest_report_teststatus.                                          *)
(*                                                                         *)
(* One behaviour of the model is one call of pytest_runtest_protocol on    *)
(* one item.  The item (its flaky marker, its xfail evaluation, whether it *)
(* has a _request attribute, and what its call phase yields on each        *)
(* attempt) and the session options are inputs drawn in Init.              *)
(*                                                                         *)
(* SpecReporting is the reporting side on its own: the host hands reports  *)
(* to pytest_report_teststatus one by one, files them by category, and     *)
(* ends the run with pytest_terminal_summary.                              *)
(***************************************************************************)
EXTENDS Integers, Sequences, FiniteSets, TLC

\* ------------------------------------------------------------- bounds
\* Largest repeat count given by a marker or by --reruns.
MaxReruns == 2

\* The pause of a marker, in milliseconds, when it gives one.
Pauses == {0, 50}

Counts == 0..MaxReruns

\* Attempts a test is described for: range(reruns+1) never goes further.
MaxAttempts == MaxReruns + 1

\* Reports the host logs before the terminal summary (SpecReporting).
MaxLogged == 2

\* ------------------------------------------------------------- the host
\* Outcome of a phase report (report.outcome); report.passed is
\* outcome = "passed".  Both strategies read only report.passed, so "failed"
\* stands for every outcome that is not "passed".
SetupOutcomes == {"passed", "failed"}
CallOutcomes == {"passed", "failed"}
TeardownOutcomes == {"passed", "failed"}

\* What the item's call phase yields on each attempt, the first attempt
\* being 1.  What its setup and teardown phases yield is chosen when they run.
Tests == [1..MaxAttempts -> CallOutcomes]

\* A report as call_and_report returns it: no rerun attribute.
Report(when, outcome, attempt) ==
    [when |-> when, outcome |-> outcome, attempt |-> attempt,
     hasRerun |-> FALSE, rerun |-> 0, nodeid |-> "test_a"]

passed(report) == report.outcome = "passed"

\* ------------------------------------------------------------- markers
\* item.get_marker("flaky"): None, or a marker with positional arguments
\* args (len and the first three values) and named arguments kwargs (the
\* names given and their values).
KwNames == {"reruns", "fixture_once", "pause"}

Args(n, r, f, p) == [len |-> n, a0 |-> r, a1 |-> f, a2 |-> p]

Kwargs(keys, r, f, p) ==
    [keys |-> keys, reruns |-> r, fixture_once |-> f, pause |-> p]

NoArgs == Args(0, 0, FALSE, 0)

NoKwargs == Kwargs({}, 0, FALSE, 0)

NoMarker == [present |-> FALSE, args |-> NoArgs, kwargs |-> NoKwargs]

Marker(args, kwargs) == [present |-> TRUE, args |-> args, kwargs |-> kwargs]

\* @pytest.mark.flaky with no argument at all.
BareMarkers == {Marker(NoArgs, NoKwargs)}

\* flaky(r), flaky(r, f), flaky(r, f, p)
PositionalMarkers ==
    {Marker(Args(1, r, FALSE, 0), NoKwargs) : r \in Counts}
    \cup {Marker(Args(2, r, f, 0), NoKwargs) : r \in Counts, f \in BOOLEAN}
    \cup {Marker(Args(3, r, f, p), NoKwargs) :
            r \in Counts, f \in BOOLEAN, p \in Pauses}

\* flaky(reruns=r), flaky(reruns=r, fixture_once=f), flaky(reruns=r, pause=p),
\* flaky(reruns=r, fixture_once=f, pause=p)
NamedMarkers ==
    {Marker(NoArgs, Kwargs({"reruns"}, r, FALSE, 0)) : r \in Counts}
    \cup {Marker(NoArgs, Kwargs({"reruns", "fixture_once"}, r, f, 0)) :
            r \in Counts, f \in BOOLEAN}
    \cup {Marker(NoArgs, Kwargs({"reruns", "pause"}, r, FALSE, p)) :
            r \in Counts, p \in Pauses}
    \cup {Marker(NoArgs, Kwargs(KwNames, r, f, p)) :
            r \in Counts, f \in BOOLEAN, p \in Pauses}

\* flaky(r, fixture_once=True), flaky(r, fixture_once=True, pause=p): a
\* positional count with named options.
MixedMarkers ==
    {Marker(Args(1, r, FALSE, 0), Kwargs({"fixture_once"}, 0, TRUE, 0)) :
        r \in Counts}
    \cup {Marker(Args(1, r, FALSE, 0),
                 Kwargs({"fixture_once", "pause"}, 0, TRUE, p)) :
            r \in Counts, p \in Pauses}

\* flaky(fixture_once=f), flaky(fixture_once=True, pause=p): named options
\* and no count.
CountlessMarkers ==
    {Marker(NoArgs, Kwargs({"fixture_once"}, 0, f, 0)) : f \in BOOLEAN}
    \cup {Marker(NoArgs, Kwargs({"fixture_once", "pause"}, 0, TRUE, p)) :
            p \in Pauses}

\* flaky(r1, reruns=r2): the count given twice.
TwiceCountedMarkers ==
    {Marker(Args(1, r1, FALSE, 0), Kwargs({"reruns"}, r2, FALSE, 0)) :
        r1 \in Counts, r2 \in Counts}

Markers ==
    {NoMarker} \cup BareMarkers \cup PositionalMarkers \cup NamedMarkers
    \cup MixedMarkers \cup CountlessMarkers \cup TwiceCountedMarkers

\* config.option.reruns: None, or an integer (--reruns, default 0).
NoneOption == [isNone |-> TRUE, val |-> 0]

IntOption(n) == [isNone |-> FALSE, val |-> n]

RerunsOptions == {NoneOption} \cup {IntOption(n) : n \in Counts}

\* ------------------------------------------------------------- state
VARIABLES
    item,          \* marker, evalxfail, hasrequest, test: the item under test
    option,        \* config.option: reruns, usepdb, collectonly
    request,       \* item._request is truthy
    pc,            \* position in pytest_runtest_protocol
    exc,           \* the exception the hook ended with, "none" if none
    bound,         \* the local names of the hook and its strategy that are bound
    reruns,        \* local reruns
    fixture_once,  \* local fixture_once
    pause,         \* local pause
    i,             \* loop variable of the strategy
    rep,           \* local rep of repeat_test_only
    reports,       \* local reports
    forwarded,     \* reports given to pytest_runtest_logreport, in order
    log,           \* what the hook has made the host do, in order
    teststatus,    \* the last report given to pytest_report_teststatus, and
                   \* what it returned
    terminalreporter  \* reportchars, stats["rerun"], the lines written, and
                   \* whether the section header was written

vars == <<item, option, request, pc, exc, bound, reruns, fixture_once, pause,
          i, rep, reports, forwarded, log, teststatus, terminalreporter>>

\* The reporting side, which the protocol hook leaves alone.
reporting == <<teststatus, terminalreporter>>

NoReport == Report("none", "none", 0)

Init ==
    /\ item \in [marker : Markers, evalxfail : BOOLEAN, hasrequest : BOOLEAN,
                 test : Tests]
    /\ option \in [reruns : RerunsOptions, usepdb : BOOLEAN,
                   collectonly : BOOLEAN]
    /\ request = item.hasrequest
    /\ pc = "resolve"
    /\ exc = "none"
    /\ bound = {}
    /\ reruns = 0
    /\ fixture_once = FALSE
    /\ pause = 0
    /\ i = 0
    /\ rep = NoReport
    /\ reports = <<>>
    /\ forwarded = <<>>
    /\ log = <<>>
    /\ teststatus = [report |-> NoReport, result |-> <<>>]
    /\ terminalreporter = [reportchars |-> <<>>, stats |-> <<>>,
                           lines |-> <<>>, sep |-> FALSE, logged |-> 0]

\* ------------------------------------------------------------- history
Count(ev) == Cardinality({k \in 1..Len(log) : log[k] = ev})

\* Positions of an event in the log.
At(ev) == {k \in 1..Len(log) : log[k] = ev}

\* item.test on attempt n (n >= 1).
CallOutcome(n) ==
    IF n \in DOMAIN item.test THEN item.test[n] ELSE item.test[MaxAttempts]

\* ------------------------------------------------------------- resolution
\* Lines 56-72: the locals a marker binds.  A marker that gives no count,
\* neither as reruns= nor as a first positional argument, binds no reruns.
MarkerPolicy(m) ==
    IF "reruns" \in m.kwargs.keys
    THEN [override |-> TRUE,
          bound |-> {"fixture_once", "pause", "reruns"},
          reruns |-> m.kwargs.reruns,
          fixture_once |-> IF "fixture_once" \in m.kwargs.keys
                           THEN m.kwargs.fixture_once ELSE FALSE,
          pause |-> IF "pause" \in m.kwargs.keys THEN m.kwargs.pause ELSE 0]
    ELSE IF m.args.len > 0
    THEN [override |-> TRUE,
          bound |-> {"fixture_once", "pause", "reruns"},
          reruns |-> m.args.a0,
          fixture_once |-> IF m.args.len > 1 THEN m.args.a1 ELSE FALSE,
          pause |-> IF m.args.len > 2 THEN m.args.a2 ELSE 0]
    ELSE [override |-> TRUE,
          bound |-> {"fixture_once", "pause"},
          reruns |-> 0, fixture_once |-> FALSE, pause |-> 0]

\* An option branch that takes None for 0 and so always takes the item over.
OptionPolicy_defaults(opt) ==
    [override |-> TRUE, bound |-> {"reruns"},
     reruns |-> IF opt.isNone THEN 0 ELSE opt.val,
     fixture_once |-> FALSE, pause |-> 0]

\* Lines 73-78: the locals the option binds when the item has no marker:
\* reruns alone.  override is FALSE when the hook returns None at line 78.
OptionPolicy(opt) ==
    IF ~opt.isNone
    THEN [override |-> TRUE, bound |-> {"reruns"},
          reruns |-> opt.val, fixture_once |-> FALSE, pause |-> 0]
    ELSE [override |-> FALSE, bound |-> {},
          reruns |-> 0, fixture_once |-> FALSE, pause |-> 0]

\* A resolution that adds the option to the marker's count.
ResolvedPolicy_additive(m, opt) ==
    IF m.present
    THEN [MarkerPolicy(m) EXCEPT
            !.reruns = @ + (IF opt.isNone THEN 0 ELSE opt.val)]
    ELSE OptionPolicy(opt)

\* Lines 56-78: the marker has priority over the option.
ResolvedPolicy(m, opt) ==
    IF m.present THEN MarkerPolicy(m) ELSE OptionPolicy(opt)

\* A check that reads collectonly the wrong way round.
check_options_collecting(config) ==
    /\ config.collectonly
    /\ (config.reruns.isNone \/ config.reruns.val # 0)
    /\ config.usepdb

\* Lines 24-29: check_options raises the usage error.  None != 0 holds.
check_options(config) ==
    /\ ~config.collectonly
    /\ (config.reruns.isNone \/ config.reruns.val # 0)
    /\ config.usepdb

\* A status hook that does not look at the phase of the report.
pytest_report_teststatus_any_phase(report) ==
    IF report.hasRerun /\ report.rerun > 0
    THEN IF report.outcome = "failed" THEN <<"failed", "F", "FAILED">>
         ELSE IF report.outcome = "passed" THEN <<"rerun", "R", "RERUN">>
         ELSE <<>>
    ELSE <<>>

\* Lines 161-170: the status triple, <<>> for None.
pytest_report_teststatus(report) ==
    IF report.when = "call" /\ report.hasRerun /\ report.rerun > 0
    THEN IF report.outcome = "failed" THEN <<"failed", "F", "FAILED">>
         ELSE IF report.outcome = "passed" THEN <<"rerun", "R", "RERUN">>
         ELSE <<>>
    ELSE <<>>

\* An annotation that does not look at the phase of the report.
Annotated_every_phase(report, idx) ==
    IF idx > 0
    THEN [report EXCEPT !.hasRerun = TRUE, !.rerun = idx]
    ELSE report

\* Lines 94-97: the report as it is logged.
Annotated(report, idx) ==
    IF report.when = "call" /\ idx > 0
    THEN [report EXCEPT !.hasRerun = TRUE, !.rerun = idx]
    ELSE report

\* ------------------------------------------------------------- the hook
\* Lines 43-78.
ResolvePolicy ==
    /\ pc = "resolve"
    /\ LET p == ResolvedPolicy(item.marker, option.reruns) IN
       /\ bound' = p.bound
       /\ reruns' = p.reruns
       /\ fixture_once' = p.fixture_once
       /\ pause' = p.pause
       /\ pc' = IF p.override THEN "check_options" ELSE "passthrough"
    /\ UNCHANGED <<item, option, request, exc, i, rep, reports, forwarded, log,
                   reporting>>

\* A check that reads the resolved count instead of config.option.reruns.
CheckOptions_resolved ==
    /\ pc = "check_options"
    /\ IF ~option.collectonly /\ "reruns" \in bound /\ reruns # 0
          /\ option.usepdb
       THEN pc' = "error" /\ exc' = "UsageError"
       ELSE pc' = "logstart" /\ exc' = exc
    /\ UNCHANGED <<item, option, request, bound, reruns, fixture_once, pause,
                   i, rep, reports, forwarded, log, reporting>>

\* Line 82.
CheckOptions ==
    /\ pc = "check_options"
    /\ IF check_options(option)
       THEN pc' = "error" /\ exc' = "UsageError"
       ELSE pc' = "logstart" /\ exc' = exc
    /\ UNCHANGED <<item, option, request, bound, reruns, fixture_once, pause,
                   i, rep, reports, forwarded, log,
                   reporting>>

\* Lines 84-86.
LogStart ==
    /\ pc = "logstart"
    /\ log' = Append(log, "logstart")
    /\ pc' = "dispatch"
    /\ UNCHANGED <<item, option, request, exc, bound, reruns, fixture_once,
                   pause, i, rep, reports, forwarded,
                   reporting>>

\* Lines 88-92: reading a local that no branch bound raises.
Dispatch ==
    /\ pc = "dispatch"
    /\ IF "fixture_once" \notin bound
       THEN pc' = "error" /\ exc' = "UnboundLocalError"
       ELSE IF fixture_once /\ ~({"reruns", "pause"} \subseteq bound)
       THEN pc' = "error" /\ exc' = "UnboundLocalError"
       ELSE IF ~fixture_once /\ "reruns" \notin bound
       THEN pc' = "error" /\ exc' = "UnboundLocalError"
       ELSE /\ pc' = IF fixture_once THEN "repeat_test_only" ELSE "repeat_run"
            /\ exc' = exc
    /\ UNCHANGED <<item, option, request, bound, reruns, fixture_once, pause,
                   i, rep, reports, forwarded, log,
                   reporting>>

\* A repeat_run that goes on until teardown passes too.
RepeatRunIteration_waits_for_teardown ==
    /\ pc = "repeat_run"
    /\ \E s \in SetupOutcomes, t \in TeardownOutcomes :
         LET n == i + 1
             rs == IF s = "passed"
                   THEN <<Report("setup", s, n),
                          Report("call", CallOutcome(n), n),
                          Report("teardown", t, n)>>
                   ELSE <<Report("setup", s, n), Report("teardown", t, n)>>
             stop == \/ \A k \in 1..Len(rs) : passed(rs[k])
                     \/ item.evalxfail
                     \/ i >= reruns
         IN /\ reports' = rs
            /\ log' = log \o <<"runtestprotocol">>
                          \o [k \in 1..Len(rs) |-> rs[k].when]
            /\ request' = IF item.hasrequest THEN FALSE ELSE request
            /\ bound' = bound \cup {"i", "reports"}
            /\ i' = IF stop THEN i ELSE i + 1
            /\ pc' = IF stop THEN "forward" ELSE "repeat_run"
    /\ UNCHANGED <<item, option, exc, reruns, fixture_once, pause, rep,
                   forwarded, reporting>>

\* A repeat_run that calls runtestprotocol with log=True: every report is
\* logged as soon as its phase has run.
RepeatRunIteration_logs ==
    /\ pc = "repeat_run"
    /\ \E s \in SetupOutcomes, t \in TeardownOutcomes :
         LET n == i + 1
             rs == IF s = "passed"
                   THEN <<Report("setup", s, n),
                          Report("call", CallOutcome(n), n),
                          Report("teardown", t, n)>>
                   ELSE <<Report("setup", s, n), Report("teardown", t, n)>>
             stop == \/ (passed(rs[1]) /\ passed(rs[2]))
                     \/ item.evalxfail
                     \/ i >= reruns
         IN /\ reports' = rs
            /\ forwarded' = forwarded \o rs
            /\ log' = log \o <<"runtestprotocol">>
                          \o [k \in 1..(2 * Len(rs)) |->
                                IF k % 2 = 1 THEN rs[(k + 1) \div 2].when
                                ELSE "logreport"]
            /\ request' = IF item.hasrequest THEN FALSE ELSE request
            /\ bound' = bound \cup {"i", "reports"}
            /\ i' = IF stop THEN i ELSE i + 1
            /\ pc' = IF stop THEN "forward" ELSE "repeat_run"
    /\ UNCHANGED <<item, option, exc, reruns, fixture_once, pause, rep,
                   reporting>>

\* Lines 108-119: one iteration of repeat_run, runtestprotocol included.
RepeatRunIteration ==
    /\ pc = "repeat_run"
    /\ \E s \in SetupOutcomes, t \in TeardownOutcomes :
         LET n == i + 1
             rs == IF s = "passed"
                   THEN <<Report("setup", s, n),
                          Report("call", CallOutcome(n), n),
                          Report("teardown", t, n)>>
                   ELSE <<Report("setup", s, n), Report("teardown", t, n)>>
             stop == \/ (passed(rs[1]) /\ passed(rs[2]))
                     \/ item.evalxfail
                     \/ i >= reruns
         IN /\ reports' = rs
            /\ log' = log \o <<"runtestprotocol">>
                          \o [k \in 1..Len(rs) |-> rs[k].when]
            /\ request' = IF item.hasrequest THEN FALSE ELSE request
            /\ bound' = bound \cup {"i", "reports"}
            /\ i' = IF stop THEN i ELSE i + 1
            /\ pc' = IF stop THEN "forward" ELSE "repeat_run"
    /\ UNCHANGED <<item, option, exc, reruns, fixture_once, pause, rep,
                   forwarded,
                   reporting>>

\* Lines 126-131.
CallOnlySetup ==
    /\ pc = "repeat_test_only"
    /\ \E s \in SetupOutcomes :
         /\ reports' = <<Report("setup", s, 1)>>
         /\ pc' = IF s = "passed" THEN "call" ELSE "keep_last"
         /\ bound' = IF s = "passed" THEN bound \cup {"reports", "i"}
                     ELSE bound \cup {"reports"}
    /\ request' = IF item.hasrequest /\ ~request THEN TRUE ELSE request
    /\ log' = Append(log, "setup")
    /\ UNCHANGED <<item, option, exc, reruns, fixture_once, pause, i, rep,
                   forwarded,
                   reporting>>

\* A call loop that goes on retrying an item marked expected-to-fail.
CallOnlyIteration_retries_xfail ==
    /\ pc = "call"
    /\ LET n == i + 1
           r == Report("call", CallOutcome(n), n)
           keep == passed(r)
           sleep == ~keep /\ pause > 0
           stop == keep \/ i >= reruns
       IN /\ rep' = r
          /\ bound' = bound \cup {"rep"}
          /\ reports' = IF keep THEN Append(reports, r) ELSE reports
          /\ log' = IF sleep THEN log \o <<"call", "sleep">>
                    ELSE Append(log, "call")
          /\ i' = IF stop THEN i ELSE i + 1
          /\ pc' = IF stop THEN "keep_last" ELSE "call"
    /\ UNCHANGED <<item, option, request, exc, reruns, fixture_once, pause,
                   forwarded,
                   reporting>>

\* Lines 132-148: one iteration of the call loop.
CallOnlyIteration ==
    /\ pc = "call"
    /\ LET n == i + 1
           r == Report("call", CallOutcome(n), n)
           keep == passed(r) \/ item.evalxfail
           sleep == ~keep /\ pause > 0
           stop == keep \/ i >= reruns
       IN /\ rep' = r
          /\ bound' = bound \cup {"rep"}
          /\ reports' = IF keep THEN Append(reports, r) ELSE reports
          /\ log' = IF sleep THEN log \o <<"call", "sleep">>
                    ELSE Append(log, "call")
          /\ i' = IF stop THEN i ELSE i + 1
          /\ pc' = IF stop THEN "keep_last" ELSE "call"
    /\ UNCHANGED <<item, option, request, exc, reruns, fixture_once, pause,
                   forwarded,
                   reporting>>

\* Lines 150-151.
CallOnlyKeepLast ==
    /\ pc = "keep_last"
    /\ IF Len(reports) = 1
       THEN IF "rep" \in bound
            THEN reports' = Append(reports, rep) /\ pc' = "teardown"
                 /\ exc' = exc
            ELSE reports' = reports /\ pc' = "error"
                 /\ exc' = "UnboundLocalError"
       ELSE reports' = reports /\ pc' = "teardown" /\ exc' = exc
    /\ UNCHANGED <<item, option, request, bound, reruns, fixture_once, pause,
                   i, rep, forwarded, log,
                   reporting>>

\* Lines 152-159.
CallOnlyTeardown ==
    /\ pc = "teardown"
    /\ \E t \in TeardownOutcomes :
         reports' = Append(reports, Report("teardown", t, 1))
    /\ request' = IF item.hasrequest THEN FALSE ELSE request
    /\ log' = IF item.hasrequest THEN log \o <<"teardown", "reset">>
              ELSE Append(log, "teardown")
    /\ IF "i" \in bound
       THEN pc' = "forward" /\ exc' = exc
       ELSE pc' = "error" /\ exc' = "UnboundLocalError"
    /\ UNCHANGED <<item, option, bound, reruns, fixture_once, pause, i, rep,
                   forwarded,
                   reporting>>

\* Lines 94-101.
ForwardReports ==
    /\ pc = "forward"
    /\ reports' = [k \in 1..Len(reports) |-> Annotated(reports[k], i)]
    /\ forwarded' = [k \in 1..Len(reports) |-> Annotated(reports[k], i)]
    /\ log' = log \o [k \in 1..Len(reports) |-> "logreport"]
    /\ pc' = "done"
    /\ UNCHANGED <<item, option, request, exc, bound, reruns, fixture_once,
                   pause, i, rep,
                   reporting>>

Next ==
    \/ ResolvePolicy
    \/ CheckOptions
    \/ LogStart
    \/ Dispatch
    \/ RepeatRunIteration
    \/ CallOnlySetup
    \/ CallOnlyIteration
    \/ CallOnlyKeepLast
    \/ CallOnlyTeardown
    \/ ForwardReports

Spec == Init /\ [][Next]_vars

\* ------------------------------------------------------------- reporting
\* Reports of any phase and outcome, with no rerun attribute or with one of
\* any value, 0 included, of two items.
NodeIds == {"test_a", "test_b"}

AnyReports ==
    {[Report(w, o, 1) EXCEPT !.nodeid = n] :
        w \in {"setup", "call", "teardown"},
        o \in {"passed", "failed", "skipped"}, n \in NodeIds}
    \cup {[Report(w, o, 1) EXCEPT !.nodeid = n, !.hasRerun = TRUE, !.rerun = r] :
        w \in {"setup", "call", "teardown"},
        o \in {"passed", "failed", "skipped"}, n \in NodeIds, r \in Counts}

\* tr.reportchars: the characters of -r, each at most once, in any order.
Chars == {"r", "R", "f"}

ReportChars ==
    {c \in UNION {[1..n -> Chars] : n \in 0..Cardinality(Chars)} :
        \A j, k \in DOMAIN c : j # k => c[j] # c[k]}

\* Lines 192-197: the lines show_rerun appends for stats["rerun"]; the line
\* "RERUN %s" % nodeid is the pair of its two parts.
show_rerun(stats) == [k \in 1..Len(stats) |-> <<"RERUN", stats[k].nodeid>>]

\* Lines 181-184: show_rerun once for every character that is r or R.
RECURSIVE SummaryLines(_, _)
SummaryLines(chars, stats) ==
    IF chars = <<>> THEN <<>>
    ELSE (IF Head(chars) \in {"r", "R"} THEN show_rerun(stats) ELSE <<>>)
         \o SummaryLines(Tail(chars), stats)

\* The host's pytest_runtest_logreport: the report is given to the status
\* hook and filed under the category returned; only a report the hook puts
\* in "rerun" reaches stats["rerun"], which is all line 193 reads.
HostLogReport ==
    /\ pc = "session"
    /\ terminalreporter.logged < MaxLogged
    /\ \E r \in AnyReports :
         LET res == pytest_report_teststatus(r) IN
         /\ teststatus' = [report |-> r, result |-> res]
         /\ terminalreporter' =
              [terminalreporter EXCEPT
                 !.logged = @ + 1,
                 !.stats = IF res # <<>> /\ res[1] = "rerun"
                           THEN Append(@, r) ELSE @]
    /\ UNCHANGED <<item, option, request, pc, exc, bound, reruns,
                   fixture_once, pause, i, rep, reports, forwarded, log>>

\* Lines 173-189: pytest_terminal_summary.
TerminalSummary ==
    /\ pc = "session"
    /\ pc' = "summarised"
    /\ LET lines == IF terminalreporter.reportchars = <<>> THEN <<>>
                    ELSE SummaryLines(terminalreporter.reportchars,
                                      terminalreporter.stats)
       IN terminalreporter' =
            [terminalreporter EXCEPT !.lines = lines, !.sep = lines # <<>>]
    /\ UNCHANGED <<item, option, request, exc, bound, reruns, fixture_once,
                   pause, i, rep, reports, forwarded, log, teststatus>>

InitReporting ==
    /\ item = [marker |-> NoMarker, evalxfail |-> FALSE, hasrequest |-> FALSE,
               test |-> [n \in 1..MaxAttempts |-> "passed"]]
    /\ option = [reruns |-> IntOption(0), usepdb |-> FALSE,
                 collectonly |-> FALSE]
    /\ request = FALSE
    /\ pc = "session"
    /\ exc = "none"
    /\ bound = {}
    /\ reruns = 0
    /\ fixture_once = FALSE
    /\ pause = 0
    /\ i = 0
    /\ rep = NoReport
    /\ reports = <<>>
    /\ forwarded = <<>>
    /\ log = <<>>
    /\ teststatus = [report |-> NoReport, result |-> <<>>]
    /\ \E c \in ReportChars :
         terminalreporter = [reportchars |-> c, stats |-> <<>>,
                             lines |-> <<>>, sep |-> FALSE, logged |-> 0]

NextReporting ==
    \/ HostLogReport
    \/ TerminalSummary

SpecReporting == InitReporting /\ [][NextReporting]_vars

\* ------------------------------------------------------------- vocabulary
\* The hook has ended: returned True, returned None, or raised.
Terminal == pc \in {"done", "passthrough", "error"}

\* The hook took the item over and the compatibility check let it through.
Handled == Terminal /\ pc # "passthrough" /\ exc # "UsageError"

\* A repeat count N was resolved for the item: N is reruns.
HasCount == "reruns" \in bound

\* The run strategy that was entered, if any.
InRepeatRun == Count("runtestprotocol") > 0

InCallOnly == Count("setup") > 0 /\ Count("runtestprotocol") = 0

\* Every setup phase that ran passed, so that the call phase ran on every
\* attempt made.
SetupAlwaysPassed ==
    IF InRepeatRun THEN Count("call") = Count("runtestprotocol")
    ELSE Len(reports) > 0 => passed(reports[1])

\* The item's call phase fails on every attempt.
AlwaysFails == \A n \in 1..MaxAttempts : item.test[n] = "failed"

\* The item's call phase fails on its first K attempts and passes on the next.
FailsThenPasses(K) ==
    /\ K + 1 <= MaxAttempts
    /\ \A n \in 1..K : item.test[n] = "failed"
    /\ item.test[K + 1] = "passed"

\* The call reports the host was given.
ForwardedCalls == {k \in 1..Len(forwarded) : forwarded[k].when = "call"}

\* ------------------------------------------------------------- C1
\* C1: for every repeat count N >= 0 and a test, not marked expected-to-fail,
\* whose call phase fails on every attempt, exactly N+1 call attempts occur
\* and the call report given to the host is failed, with rerun = N when
\* N > 0 and with no rerun attribute when N = 0.
C1_AlwaysFailing ==
    (Handled /\ HasCount /\ ~item.evalxfail /\ AlwaysFails
        /\ SetupAlwaysPassed)
    => /\ Count("call") = reruns + 1
       /\ Cardinality(ForwardedCalls) = 1
       /\ \A k \in ForwardedCalls :
            /\ forwarded[k].outcome = "failed"
            /\ IF reruns > 0
               THEN forwarded[k].hasRerun /\ forwarded[k].rerun = reruns
               ELSE ~forwarded[k].hasRerun

\* C1, for items that carry a flaky marker: the statement holds.
C1_AlwaysFailing_Marked == item.marker.present => C1_AlwaysFailing

\* ------------------------------------------------------------- C2
\* C2: for every repeat count N >= 1 and every K < N+1, a test that fails
\* its first K attempts and then passes is attempted exactly K+1 times, and
\* its final call report is in the category rerun with rerun = K.
C2_FailsThenPasses ==
    \A K \in 0..MaxReruns :
        (Handled /\ HasCount /\ reruns >= 1 /\ K < reruns + 1
            /\ FailsThenPasses(K) /\ SetupAlwaysPassed)
        => /\ Count("call") = K + 1
           /\ Cardinality(ForwardedCalls) = 1
           /\ \A k \in ForwardedCalls :
                /\ pytest_report_teststatus(forwarded[k])
                       = <<"rerun", "R", "RERUN">>
                /\ forwarded[k].hasRerun /\ forwarded[k].rerun = K

\* C2, for items that carry a flaky marker and are not marked
\* expected-to-fail, and for K >= 1: the statement holds.
C2_FailsThenPasses_Marked ==
    \A K \in 1..MaxReruns :
        (Handled /\ HasCount /\ item.marker.present /\ ~item.evalxfail
            /\ K < reruns + 1 /\ FailsThenPasses(K) /\ SetupAlwaysPassed)
        => /\ Count("call") = K + 1
           /\ Cardinality(ForwardedCalls) = 1
           /\ \A k \in ForwardedCalls :
                /\ pytest_report_teststatus(forwarded[k])
                       = <<"rerun", "R", "RERUN">>
                /\ forwarded[k].hasRerun /\ forwarded[k].rerun = K

\* ------------------------------------------------------------- C3
\* C3: for an item with no flaky marker while config.option.reruns is set,
\* the hook resolves the count to the option with mode WholeTest and pause 0,
\* runs repeat_run, forwards the reports and returns True.
C3_GlobalSetting ==
    (Handled /\ ~item.marker.present /\ ~option.reruns.isNone)
    => /\ pc = "done"
       /\ {"reruns", "fixture_once", "pause"} \subseteq bound
       /\ reruns = option.reruns.val
       /\ ~fixture_once
       /\ pause = 0
       /\ InRepeatRun
       /\ forwarded = reports
       /\ Len(forwarded) >= 2

\* ------------------------------------------------------------- C4
\* The marker gives the count M: as reruns=M, or else as its first
\* positional argument.
MarkerGivesCount(m, M) ==
    /\ m.present
    /\ \/ "reruns" \in m.kwargs.keys /\ m.kwargs.reruns = M
       \/ "reruns" \notin m.kwargs.keys /\ m.args.len > 0 /\ m.args.a0 = M

\* C4: the count of a flaky marker replaces config.option.reruns, whatever
\* the option is: the resolved count is the marker's count M, and a test
\* whose call phase always fails is attempted M+1 times (retried M times).
C4_MarkerReplacesOption ==
    \A M \in Counts :
        MarkerGivesCount(item.marker, M)
        => /\ pc # "resolve" => (HasCount /\ reruns = M)
           /\ (Handled /\ ~item.evalxfail /\ AlwaysFails
                  /\ SetupAlwaysPassed)
              => Count("call") = M + 1

\* C4 witness: a marker count of MaxReruns under an option of 1, the test
\* always failing: the hook returned after MaxReruns + 1 call attempts.
C4_Witness ==
    /\ MarkerGivesCount(item.marker, MaxReruns)
    /\ ~option.reruns.isNone /\ option.reruns.val = 1
    /\ ~item.evalxfail /\ AlwaysFails
    /\ pc = "done"
    /\ Count("call") = MaxReruns + 1

\* ------------------------------------------------------------- C5
\* C5: in both strategies an item whose xfail evaluation is present is
\* attempted once whatever the repeat count and whatever the attempt yields
\* (an attempt of repeat_run is one runtestprotocol, an attempt of
\* repeat_test_only is one run of the call phase), and the reports of that
\* attempt are the ones forwarded; repeat_test_only keeps a failing call
\* report.
C5_XfailOneAttempt ==
    item.evalxfail
    => /\ Count("runtestprotocol") <= 1
       /\ Count("call") <= 1
       /\ pc \in {"forward", "done"}
          => /\ i = 0
             /\ InRepeatRun => Count("runtestprotocol") = 1
             /\ InCallOnly
                => /\ Count("call") = 1
                   /\ Len(reports) = 3
                   /\ reports[2].when = "call"
                   /\ reports[2].outcome = item.test[1]
       /\ pc = "done"
          => /\ \A k \in 1..Len(forwarded) :
                  forwarded[k].attempt = 1 /\ ~forwarded[k].hasRerun
             /\ \A k \in ForwardedCalls :
                  forwarded[k].outcome = item.test[1]

\* C5 witness: repeat_test_only with the largest count, an xfail item whose
\* call failed: the hook returned after one call attempt, its report kept.
C5_Witness ==
    /\ item.evalxfail
    /\ InCallOnly
    /\ reruns = MaxReruns
    /\ item.test[1] = "failed"
    /\ pc = "done"
    /\ Count("call") = 1
    /\ forwarded[2].when = "call" /\ forwarded[2].outcome = "failed"

\* ------------------------------------------------------------- C6
\* C6: in repeat_test_only the setup phase runs exactly once, before any
\* call attempt, and the teardown phase runs exactly once, after the last
\* call attempt.
C6_SetupTeardownOnce ==
    InCallOnly
    => /\ Count("setup") = 1
       /\ \A k \in At("call") : \E j \in At("setup") : j < k
       /\ \A k \in At("teardown") : \A j \in At("call") : j < k
       /\ Count("teardown") <= 1
       /\ Terminal => Count("teardown") = 1

\* C6, when the setup phase passed: the statement holds.
C6_SetupTeardownOnce_SetupPassed ==
    (InCallOnly /\ passed(reports[1])) => C6_SetupTeardownOnce

\* ------------------------------------------------------------- C7
\* C7: in repeat_test_only, when the setup phase fails no call attempt is
\* made, teardown still runs, and the strategy returns normally.
C7_SetupFailure ==
    (InCallOnly /\ ~passed(reports[1]) /\ Terminal)
    => /\ Count("call") = 0
       /\ Count("teardown") = 1
       /\ exc = "none"
       /\ pc = "done"

\* ------------------------------------------------------------- C8
\* C8: in repeat_test_only with pause > 0, every pause comes after a call
\* attempt and is followed by another call attempt, so that a test failing
\* all reruns+1 attempts pauses exactly reruns times.
C8_PauseBetweenAttempts ==
    (InCallOnly /\ pause > 0)
    => /\ \A k \in At("sleep") : k > 1 /\ log[k - 1] = "call"
       /\ pc # "call"
          => \A k \in At("sleep") : \E j \in At("call") : j > k
       /\ (Terminal /\ ~item.evalxfail /\ AlwaysFails /\ passed(reports[1]))
          => Count("sleep") = reruns

\* C8, as the code has it: a pause follows every call attempt that failed
\* and was not cut short by xfail, the last one included.
C8_PauseAfterEveryFailure ==
    (InCallOnly /\ pause > 0 /\ Terminal /\ ~item.evalxfail /\ AlwaysFails
        /\ passed(reports[1]))
    => Count("sleep") = reruns + 1

\* ------------------------------------------------------------- C9
\* C9: with config.option.reruns non-zero, usepdb set and collectonly not
\* set, the hook raises the usage error for every item, before
\* pytest_runtest_logstart and before any phase runs: nothing is ever logged
\* or forwarded, and past the check the hook has ended with UsageError.
C9_UsageErrorFirst ==
    (~option.reruns.isNone /\ option.reruns.val # 0 /\ option.usepdb
        /\ ~option.collectonly)
    => /\ log = <<>>
       /\ forwarded = <<>>
       /\ pc \in {"resolve", "check_options", "error"}
       /\ pc = "error" => exc = "UsageError"

\* C9 witness: the usage error raised for an item that carries a marker.
C9_Witness ==
    /\ ~option.reruns.isNone /\ option.reruns.val = MaxReruns
    /\ option.usepdb /\ ~option.collectonly
    /\ item.marker.present
    /\ pc = "error" /\ exc = "UsageError"
    /\ log = <<>>

\* ------------------------------------------------------------- C10
\* C10: a test that passes on its first attempt yields what a single run by
\* the host yields: one setup, one call and one teardown report, forwarded
\* in that order, none with a rerun attribute, and none whose status the
\* status hook overrides.
C10_FirstAttemptPasses ==
    (Handled /\ item.test[1] = "passed" /\ SetupAlwaysPassed)
    => /\ pc = "done"
       /\ Count("setup") = 1 /\ Count("call") = 1 /\ Count("teardown") = 1
       /\ Len(forwarded) = 3
       /\ forwarded[1].when = "setup"
       /\ forwarded[2].when = "call" /\ forwarded[2].outcome = "passed"
       /\ forwarded[3].when = "teardown"
       /\ \A k \in 1..Len(forwarded) :
            /\ ~forwarded[k].hasRerun
            /\ pytest_report_teststatus(forwarded[k]) = <<>>

\* C10, for items whose marker gives a count: the statement holds.
C10_FirstAttemptPasses_Marked ==
    (item.marker.present /\ HasCount) => C10_FirstAttemptPasses

\* ------------------------------------------------------------- C11
\* C11: pytest_report_teststatus returns a status only for a call report
\* with a rerun attribute above 0: (failed, F, FAILED) when it failed,
\* (rerun, R, RERUN) when it passed; for every other report (another phase,
\* no rerun attribute, rerun = 0, another outcome) it returns None.  So the
\* reports filed under "rerun" are the passed call reports that were rerun.
C11_StatusOverride ==
    LET r == teststatus.report
        positive == r.when = "call" /\ r.hasRerun /\ r.rerun > 0
    IN terminalreporter.logged > 0
       => /\ (positive /\ r.outcome = "failed")
             => teststatus.result = <<"failed", "F", "FAILED">>
          /\ (positive /\ r.outcome = "passed")
             => teststatus.result = <<"rerun", "R", "RERUN">>
          /\ (~positive \/ r.outcome \notin {"failed", "passed"})
             => teststatus.result = <<>>
          /\ \A k \in 1..Len(terminalreporter.stats) :
               LET q == terminalreporter.stats[k] IN
               q.when = "call" /\ q.outcome = "passed" /\ q.hasRerun
                   /\ q.rerun > 0

\* C11 witness: a passed call report with rerun = MaxReruns was put in the
\* category rerun and filed there.
C11_Witness ==
    /\ teststatus.report.when = "call"
    /\ teststatus.report.outcome = "passed"
    /\ teststatus.report.hasRerun /\ teststatus.report.rerun = MaxReruns
    /\ teststatus.result = <<"rerun", "R", "RERUN">>
    /\ Len(terminalreporter.stats) > 0

\* C11, in the protocol hook: of the reports forwarded, those the status
\* hook puts in "rerun" are the passed call reports of a run whose returned
\* index is above 0, that is of an attempt that followed another one.
C11_RerunAfterFailure ==
    pc = "done"
    => \A k \in 1..Len(forwarded) :
         (pytest_report_teststatus(forwarded[k]) = <<"rerun", "R", "RERUN">>)
         <=> (forwarded[k].when = "call" /\ passed(forwarded[k]) /\ i > 0
                /\ Count("call") + Count("runtestprotocol") > 1)

\* ------------------------------------------------------------- C12
\* Some character of reportchars is r or R.
WantsRerun ==
    \E k \in DOMAIN terminalreporter.reportchars :
        terminalreporter.reportchars[k] \in {"r", "R"}

\* C12: after the terminal summary, when reportchars has r or R the lines
\* written are one "RERUN <nodeid>" per report in the category rerun, under
\* the header; when it has neither, no line and no header are written.
C12_SummaryLines ==
    pc = "summarised"
    => IF WantsRerun
       THEN /\ terminalreporter.lines = show_rerun(terminalreporter.stats)
            /\ terminalreporter.sep = (terminalreporter.stats # <<>>)
       ELSE terminalreporter.lines = <<>> /\ ~terminalreporter.sep

\* C12, when r and R are not both given: the statement holds.
C12_SummaryLines_OneChar ==
    (Cardinality({k \in DOMAIN terminalreporter.reportchars :
                    terminalreporter.reportchars[k] \in {"r", "R"}}) <= 1)
    => C12_SummaryLines

C14_StopsOnPass ==
    (InRepeatRun /\ passed(reports[1]) /\ passed(reports[2]))
    => /\ pc # "repeat_run"
       /\ Count("runtestprotocol") = reports[1].attempt
       /\ i = reports[1].attempt - 1

\* C14 witness: with the largest count the first attempt passed setup and
\* call and failed teardown, and the hook returned after that one attempt.
C14_Witness ==
    /\ InRepeatRun
    /\ reruns = MaxReruns
    /\ Len(reports) = 3
    /\ passed(reports[1]) /\ passed(reports[2]) /\ ~passed(reports[3])
    /\ pc = "done"
    /\ Count("runtestprotocol") = 1

\* ------------------------------------------------------------- C15
\* Attempts made: runs of runtestprotocol in repeat_run, runs of the call
\* phase in repeat_test_only.
Attempts ==
    IF InRepeatRun THEN Count("runtestprotocol") ELSE Count("call")

\* The strategy has ended, by returning or by raising.
StrategyEnded ==
    (InRepeatRun \/ InCallOnly) /\ pc \in {"forward", "done", "error"}

\* C15: whatever the phases yield, each strategy makes at least 1 and at
\* most reruns+1 attempts and returns; the index it returns is the number of
\* attempts less one, lies in 0..reruns, and is the attempt the returned
\* reports come from.
C15_AttemptBounds ==
    (InRepeatRun \/ InCallOnly)
    => /\ Attempts <= reruns + 1
       /\ StrategyEnded
          => /\ pc # "error"
             /\ Attempts >= 1
             /\ "i" \in bound
             /\ i = Attempts - 1
             /\ i \in 0..reruns
             /\ IF InRepeatRun
                THEN \A k \in 1..Len(reports) : reports[k].attempt = i + 1
                ELSE reports[2].when = "call" /\ reports[2].attempt = i + 1

\* C15, for repeat_run and for repeat_test_only when the setup phase
\* passed: the statement holds.
C15_AttemptBounds_SetupPassed ==
    (InRepeatRun \/ (InCallOnly /\ passed(reports[1]))) => C15_AttemptBounds

\* ------------------------------------------------------------- C16
\* C16: a rerun attribute exists only once the hook has annotated, only on
\* the call report of the last attempt and only when the returned index is
\* above 0; its value is that index, so at least 1.  Setup and teardown
\* reports never have one.
C16_RerunAttribute ==
    /\ \A k \in 1..Len(reports) :
         reports[k].hasRerun
         => /\ pc = "done"
            /\ reports[k].when = "call"
            /\ reports[k].rerun >= 1
            /\ reports[k].rerun = i
            /\ reports[k].attempt = Attempts
    /\ \A k \in 1..Len(forwarded) :
         forwarded[k].hasRerun
         => /\ forwarded[k].when = "call"
            /\ forwarded[k].rerun >= 1
            /\ forwarded[k].rerun = i
            /\ forwarded[k].attempt = Attempts
    /\ pc = "done"
       => \A k \in ForwardedCalls : forwarded[k].hasRerun <=> i > 0

\* C16 witness: the hook returned after MaxReruns retries; the call report
\* has rerun = MaxReruns, the setup and teardown reports have none.
C16_Witness ==
    /\ pc = "done"
    /\ i = MaxReruns
    /\ Len(forwarded) = 3
    /\ forwarded[2].hasRerun /\ forwarded[2].rerun = MaxReruns
    /\ ~forwarded[1].hasRerun /\ ~forwarded[3].hasRerun

\* ------------------------------------------------------------- C17
\* What a strategy makes the host run.
PhaseEvents == {"runtestprotocol", "setup", "call", "teardown", "sleep"}

\* C17: pytest_runtest_logstart is emitted once, before any phase runs;
\* reports reach pytest_runtest_logreport only when every attempt is over;
\* repeat_run forwards the reports of its last attempt alone, each once and
\* in phase order.
C17_LogOrder ==
    /\ Count("logstart") <= 1
    /\ \A k \in 1..Len(log) :
         log[k] \in PhaseEvents => \E j \in At("logstart") : j < k
    /\ Handled => Count("logstart") = 1
    /\ \A k \in At("logreport") :
         \A j \in 1..Len(log) : log[j] \in PhaseEvents => j < k
    /\ Count("logreport") = Len(forwarded)
    /\ pc # "done" => forwarded = <<>>
    /\ (pc = "done" /\ InRepeatRun)
       => /\ Len(forwarded) = Len(reports)
          /\ \A k \in 1..Len(forwarded) :
               forwarded[k].attempt = Count("runtestprotocol")
          /\ [k \in 1..Len(forwarded) |-> forwarded[k].when]
                \in {<<"setup", "call", "teardown">>, <<"setup", "teardown">>}

\* C17 witness: repeat_run made MaxReruns + 1 attempts and the three reports
\* of the last one were forwarded.
C17_Witness ==
    /\ pc = "done"
    /\ InRepeatRun
    /\ Count("runtestprotocol") = MaxReruns + 1
    /\ Len(forwarded) = 3
    /\ Count("logreport") = 3
    /\ forwarded[1].attempt = MaxReruns + 1

\* ------------------------------------------------------------- C18
\* C18: in repeat_test_only the item's _request is reset in every run, after
\* the teardown phase and before any report is forwarded, never between
\* call attempts.
C18_CacheReset ==
    (InCallOnly /\ item.hasrequest)
    => /\ Count("reset") <= 1
       /\ \A k \in At("reset") :
            /\ \E j \in At("teardown") : j < k
            /\ \A j \in At("call") : j < k
            /\ \A j \in At("logreport") : k < j
       /\ Terminal => (Count("reset") = 1 /\ ~request)

\* C18, when the setup phase passed: the statement holds.
C18_CacheReset_SetupPassed ==
    (InCallOnly /\ passed(reports[1])) => C18_CacheReset

\* ------------------------------------------------------------- C19
\* C19: whenever the hook takes the item over with a resolved count that is
\* not 0, a marker's count under an option of 0 included, and usepdb is set
\* (the run not being collect-only), the usage error is raised before any
\* phase.
C19_ResolvedCount ==
    (HasCount /\ reruns # 0 /\ option.usepdb /\ ~option.collectonly
        /\ pc \notin {"resolve", "check_options"})
    => /\ pc = "error" /\ exc = "UsageError"
       /\ log = <<>>

\* C19 as amended: the usage error is raised exactly when
\* config.option.reruns is not 0, whatever count was resolved, usepdb is set
\* and the run is not collect-only; it is raised before
\* pytest_runtest_logstart and before any phase.
C19_OptionCount ==
    pc \notin {"resolve", "check_options", "passthrough"}
    => /\ exc = "UsageError"
          <=> /\ option.reruns.isNone \/ option.reruns.val # 0
              /\ option.usepdb
              /\ ~option.collectonly
       /\ exc = "UsageError"
          => pc = "error" /\ log = <<>> /\ forwarded = <<>>

\* C19 witness: the option is 1 and the marker's count is 0: the usage
\* error is raised although the resolved count is 0.
C19_Witness ==
    /\ item.marker.present
    /\ HasCount /\ reruns = 0
    /\ ~option.reruns.isNone /\ option.reruns.val = 1
    /\ option.usepdb /\ ~option.collectonly
    /\ pc = "error" /\ exc = "UsageError"

\* ------------------------------------------------------------- C20
\* C20: for every shape of flaky marker the hook has bound reruns,
\* fixture_once and pause once it is past the resolution, so before
\* check_options and before either strategy.
C20_PolicyDefined ==
    (item.marker.present /\ pc # "resolve")
    => {"reruns", "fixture_once", "pause"} \subseteq bound

\* C20, for markers that give a count: the statement holds.
C20_PolicyDefined_Counted ==
    (\E M \in Counts : MarkerGivesCount(item.marker, M)) => C20_PolicyDefined

====
